---- MODULE Spec2Model ----
(***************************************************************************)
(* Model of Tools/discover_stm32.py: UDP broadcast discovery of STM32      *)
(* devices.  discover_devices() starts a listener thread                   *)
(* (listen_for_responses), sends one broadcast probe                       *)
(* (send_discovery_broadcast), joins the listener and prints a summary.    *)
(* The module-level list discovered_devices is guarded by discovery_lock.  *)
(***************************************************************************)
EXTENDS Integers, Sequences, FiniteSets, TLC

\* ------------------------------------------------------------------------
\* Bounds of the model
\* ------------------------------------------------------------------------
MaxTimeout == 2      \* discover_devices(timeout) is called with 0 or MaxTimeout
MaxDatagrams == 2    \* datagrams delivered to the listener in one process
MaxFields == 2       \* key/value pairs written in one JSON object text
MaxSessions == 2     \* calls of discover_devices in one process
NumCallers == 2      \* concurrent callers of the locked section (SpecConc)

\* ------------------------------------------------------------------------
\* Values
\* ------------------------------------------------------------------------
None == "None"
Addrs == {"10.0.0.5", "10.0.0.9"}
\* the window lengths tried: the zero window and a positive one
Timeouts == {0, MaxTimeout}

\* key/value pairs a JSON object text may contain: an 'ip', and a key the
\* program does not know (it handles every key but 'ip' alike)
Pairs == {<<"ip", a>> : a \in Addrs} \cup {<<"serial", "A1">>}

\* all sequences over S of length at most n
RECURSIVE SeqsUpTo(_, _)
SeqsUpTo(S, n) ==
    IF n = 0 THEN {<<>>}
    ELSE LET shorter == SeqsUpTo(S, n - 1)
         IN  shorter \cup {Append(s, x) : s \in {t \in shorter : Len(t) = n - 1}, x \in S}

\* The bytes of a datagram, by what decoding makes of them:
\*   empty         b''
\*   invalid_utf8  bytes that are no UTF-8 text
\*   garbage       UTF-8 text that is no JSON document
\*   number, array a JSON document that is no object, e.g. 5 or [1]
\*   object        a JSON object text: its key/value pairs in textual order
PayloadKinds == {"empty", "invalid_utf8", "garbage", "number", "array"}
Payloads ==
    {[kind |-> k, pairs |-> <<>>] : k \in PayloadKinds}
    \cup {[kind |-> "object", pairs |-> p] : p \in SeqsUpTo(Pairs, MaxFields)}

EmptyDict == [k \in {} |-> None]

\* DictOf as it would be if only the keys the program prints were kept
KnownKeys == {"hostname", "ip", "type", "version"}
RECURSIVE DictOf_KnownKeysOnly(_)
DictOf_KnownKeysOnly(pairs) ==
    IF pairs = <<>> THEN EmptyDict
    ELSE LET n == Len(pairs)
             rest == DictOf_KnownKeysOnly(SubSeq(pairs, 1, n - 1))
             key == pairs[n][1]
         IN  IF key \notin KnownKeys THEN rest
             ELSE [k \in (DOMAIN rest) \cup {key} |->
                      IF k = key THEN pairs[n][2] ELSE rest[k]]

\* dict built from the pairs of an object text: a repeated key keeps the last value
RECURSIVE DictOf(_)
DictOf(pairs) ==
    IF pairs = <<>> THEN EmptyDict
    ELSE LET n == Len(pairs)
             rest == DictOf(SubSeq(pairs, 1, n - 1))
             key == pairs[n][1]
         IN  [k \in (DOMAIN rest) \cup {key} |-> IF k = key THEN pairs[n][2] ELSE rest[k]]

\* data.decode('utf-8'): the text, or UnicodeDecodeError
Utf8Decode(data) ==
    IF data.kind = "invalid_utf8"
    THEN [ok |-> FALSE, err |-> "UnicodeDecodeError", text |-> data]
    ELSE [ok |-> TRUE, err |-> None, text |-> data]

\* json.loads(text): a Python value, or JSONDecodeError
\* a Python value is [t |-> "dict" | "int" | "list", items |-> dict entries]
JsonLoads(text) ==
    CASE text.kind = "object" -> [ok |-> TRUE, err |-> None,
                                   value |-> [t |-> "dict", items |-> DictOf(text.pairs)]]
      [] text.kind = "number" -> [ok |-> TRUE, err |-> None,
                                   value |-> [t |-> "int", items |-> EmptyDict]]
      [] text.kind = "array"  -> [ok |-> TRUE, err |-> None,
                                   value |-> [t |-> "list", items |-> EmptyDict]]
      [] OTHER                -> [ok |-> FALSE, err |-> "JSONDecodeError",
                                   value |-> [t |-> "none", items |-> EmptyDict]]

\* json.loads(data.decode('utf-8')), line 57
DecodeResponse(data) ==
    LET txt == Utf8Decode(data)
    IN  IF txt.ok THEN JsonLoads(txt.text)
        ELSE [ok |-> FALSE, err |-> txt.err, value |-> [t |-> "none", items |-> EmptyDict]]

\* a well-formed response: UTF-8 text of a JSON object with at least one field
WellFormed(data) == data.kind = "object" /\ data.pairs # <<>>

\* d.get(key): only a dict has .get; any other value raises AttributeError
HasGet(d) == d.t = "dict"
Get(d, key) == IF key \in DOMAIN d.items THEN d.items[key] ELSE None

\* [d.get('ip') for d in discovered_devices] raises AttributeError (line 59)
IpListRaises(devices) == \E i \in 1..Len(devices) : ~HasGet(devices[i])
IpList(devices) == {Get(devices[i], "ip") : i \in 1..Len(devices)}

\* lines 59-60: is device_info appended to discovered_devices?
Appends(devices, a) == ~IpListRaises(devices) /\ a \notin IpList(devices)

\* InsertResponse as it would be with insert(0, device_info) for append
InsertResponse_Prepend(devices, a, info) ==
    IF Appends(devices, a) THEN <<info>> \o devices ELSE devices

\* lines 59-61: the list after the locked section has run for (a, info)
InsertResponse(devices, a, info) ==
    IF Appends(devices, a) THEN Append(devices, info) ELSE devices

\* ------------------------------------------------------------------------
\* State
\* ------------------------------------------------------------------------
VARIABLES
    session,            \* number of the current call of discover_devices
    timeout,            \* its argument
    mpc,                \* position of the calling (main) thread
    psock,              \* the prober's socket (send_discovery_broadcast)
    sendStatus,         \* outcome of sock.sendto: none, sent, failed
    lpc,                \* position of the listener thread
    lsock,              \* the listener's socket
    start_time,         \* listen_for_responses: start_time
    now,                \* time.time(), counted from the call of discover_devices
    recv_start,         \* time at which the pending recvfrom was entered
    data, addr,         \* listen_for_responses: data, addr[0]
    device_info,        \* listen_for_responses: device_info
    discovered_devices, \* the module-level list
    discovery_lock,     \* holder of the module-level lock, or None
    reported,           \* device count printed by the summary, -1 before it
    origins,            \* history: source address of each appended entry
    received,           \* history: number of datagrams recvfrom has returned
    heardFrom,          \* history: their source addresses, this session
    malformedSeen,      \* history: one of them, this session, was malformed
    sendAttempts,       \* history: calls of sock.sendto in this session
    threadStarts,       \* history: listener threads started in this session
    joins,              \* history: completed listener_thread.join() calls
    windows,            \* history: receive loops begun in this session
    callers             \* SpecConc: concurrent callers of the locked section

vars == <<session, timeout, mpc, psock, sendStatus, lpc, lsock, start_time, now,
          recv_start, data, addr, device_info, discovered_devices, discovery_lock,
          reported, origins, received, heardFrom, malformedSeen,
          sendAttempts, threadStarts, joins, windows,
          callers>>

mainVars == <<session, timeout, mpc, psock, sendStatus, reported, sendAttempts,
              threadStarts, joins>>
listenerVars == <<lpc, lsock, start_time, recv_start, data, addr, device_info, windows>>
registryVars == <<discovered_devices, discovery_lock, origins>>
inputVars == <<received, heardFrom, malformedSeen>>

NoData == [kind |-> "none", pairs |-> <<>>]
NoValue == [t |-> "none", items |-> EmptyDict]
NoCallers == [c \in {} |-> None]

\* module load (lines 28-29) and the state before discover_devices is called
InitProgram ==
    /\ session = 1
    /\ timeout \in Timeouts
    /\ mpc = "idle"
    /\ psock = "none"
    /\ sendStatus = "none"
    /\ lpc = "none"
    /\ lsock = "none"
    /\ start_time = 0
    /\ now = 0
    /\ recv_start = 0
    /\ data = NoData
    /\ addr = None
    /\ device_info = NoValue
    /\ discovered_devices = <<>>
    /\ discovery_lock = None
    /\ reported = -1
    /\ origins = <<>>
    /\ received = 0
    /\ heardFrom = {}
    /\ malformedSeen = FALSE
    /\ sendAttempts = 0
    /\ threadStarts = 0
    /\ joins = 0
    /\ windows = 0

Init == InitProgram /\ callers = NoCallers

ListenerAlive == lpc \in {"setup", "loop", "recv", "process", "locked", "close"}
ListenerTerminated == lpc \in {"exited", "crashed"}

\* ------------------------------------------------------------------------
\* Main thread: discover_devices and send_discovery_broadcast
\* ------------------------------------------------------------------------

\* lines 87-89: create and start the listener thread; start() does not wait
\* for the thread to run
StartListener ==
    /\ mpc = "idle"
    /\ mpc' = "started"
    /\ lpc' = "setup"
    /\ threadStarts' = threadStarts + 1
    /\ UNCHANGED <<session, timeout, psock, sendStatus, reported, sendAttempts, joins,
                   lsock, start_time, recv_start, data, addr, device_info, windows,
                   now, callers>>
    /\ UNCHANGED registryVars
    /\ UNCHANGED inputVars

\* lines 73-74 succeed: the prober's socket is created and broadcast-enabled
ProberSetup ==
    /\ mpc = "started"
    /\ mpc' = "send"
    /\ psock' = "open"
    /\ UNCHANGED <<session, timeout, sendStatus, reported, sendAttempts, threadStarts,
                   joins, now, callers>>
    /\ UNCHANGED listenerVars
    /\ UNCHANGED registryVars
    /\ UNCHANGED inputVars

\* lines 73-74 raise OSError: nothing catches it, neither in
\* send_discovery_broadcast nor in discover_devices (line 92) nor at lines
\* 110-114, so the process ends with the traceback, and with it the daemon
\* listener thread and every local
ProberSetupFails ==
    /\ mpc = "started"
    /\ mpc' = "raised"
    /\ psock' \in {"none", "open"}
    /\ lpc' = IF ListenerAlive THEN "killed" ELSE lpc
    /\ recv_start' = 0
    /\ data' = NoData
    /\ addr' = None
    /\ device_info' = NoValue
    /\ UNCHANGED <<session, timeout, sendStatus, reported, sendAttempts, threadStarts,
                   joins, lsock, start_time, windows, now, callers>>
    /\ UNCHANGED registryVars
    /\ UNCHANGED inputVars

\* lines 76-78: sendto succeeds
SendBroadcast ==
    /\ mpc = "send"
    /\ mpc' = "close"
    /\ sendStatus' = "sent"
    /\ sendAttempts' = sendAttempts + 1
    /\ UNCHANGED <<session, timeout, psock, reported, threadStarts, joins, now, callers>>
    /\ UNCHANGED listenerVars
    /\ UNCHANGED registryVars
    /\ UNCHANGED inputVars

\* SendBroadcastFails as it would be if the handler sent again after a failure
SendBroadcastFails_Retry ==
    /\ mpc = "send"
    /\ mpc' = "send"
    /\ sendStatus' = "failed"
    /\ sendAttempts' = sendAttempts + 1
    /\ UNCHANGED <<session, timeout, psock, reported, threadStarts, joins, now,
                   callers>>
    /\ UNCHANGED listenerVars
    /\ UNCHANGED registryVars
    /\ UNCHANGED inputVars

\* SendBroadcastFails as it would be without the try/except of lines 76-80:
\* the exception leaves discover_devices and ends the process
SendBroadcastFails_Propagates ==
    /\ mpc = "send"
    /\ mpc' = "raised"
    /\ sendStatus' = "failed"
    /\ sendAttempts' = sendAttempts + 1
    /\ lpc' = IF ListenerAlive THEN "killed" ELSE lpc
    /\ recv_start' = 0
    /\ data' = NoData
    /\ addr' = None
    /\ device_info' = NoValue
    /\ UNCHANGED <<session, timeout, psock, reported, threadStarts, joins, lsock,
                   start_time, windows, now, callers>>
    /\ UNCHANGED registryVars
    /\ UNCHANGED inputVars

\* lines 76-80: sendto raises; the handler prints the error and falls through
SendBroadcastFails ==
    /\ mpc = "send"
    /\ mpc' = "close"
    /\ sendStatus' = "failed"
    /\ sendAttempts' = sendAttempts + 1
    /\ UNCHANGED <<session, timeout, psock, reported, threadStarts, joins, now, callers>>
    /\ UNCHANGED listenerVars
    /\ UNCHANGED registryVars
    /\ UNCHANGED inputVars

\* line 82, and the return to discover_devices
ProberClose ==
    /\ mpc = "close"
    /\ mpc' = "join"
    /\ psock' = "closed"
    /\ UNCHANGED <<session, timeout, sendStatus, reported, sendAttempts, threadStarts,
                   joins, now, callers>>
    /\ UNCHANGED listenerVars
    /\ UNCHANGED registryVars
    /\ UNCHANGED inputVars

\* JoinListener as it would be without line 95
JoinListener_NoWait ==
    /\ mpc = "join"
    /\ mpc' = "summary"
    /\ joins' = joins + 1
    /\ UNCHANGED <<session, timeout, psock, sendStatus, reported, sendAttempts,
                   threadStarts, now, callers>>
    /\ UNCHANGED listenerVars
    /\ UNCHANGED registryVars
    /\ UNCHANGED inputVars

\* line 95: join returns once the listener thread has ended, however it ended
JoinListener ==
    /\ mpc = "join"
    /\ ListenerTerminated
    /\ mpc' = "summary"
    /\ joins' = joins + 1
    /\ UNCHANGED <<session, timeout, psock, sendStatus, reported, sendAttempts,
                   threadStarts, now, callers>>
    /\ UNCHANGED listenerVars
    /\ UNCHANGED registryVars
    /\ UNCHANGED inputVars

\* lines 98-102: under the lock, print the number of entries; then return
PrintSummary ==
    /\ mpc = "summary"
    /\ discovery_lock = None
    /\ mpc' = "done"
    /\ reported' = Len(discovered_devices)
    /\ UNCHANGED <<session, timeout, psock, sendStatus, sendAttempts, threadStarts,
                   joins, now, callers>>
    /\ UNCHANGED listenerVars
    /\ UNCHANGED registryVars
    /\ UNCHANGED inputVars

\* discover_devices is called again in the same process after it returned:
\* locals are fresh, the module-level list and lock are what they were
NewSession ==
    /\ mpc = "done"
    /\ session < MaxSessions
    /\ session' = session + 1
    /\ timeout' \in Timeouts
    /\ mpc' = "idle"
    /\ psock' = "none"
    /\ sendStatus' = "none"
    /\ lpc' = "none"
    /\ lsock' = "none"
    /\ start_time' = 0
    /\ now' = 0
    /\ recv_start' = 0
    /\ data' = NoData
    /\ addr' = None
    /\ device_info' = NoValue
    /\ reported' = -1
    /\ sendAttempts' = 0
    /\ threadStarts' = 0
    /\ joins' = 0
    /\ windows' = 0
    /\ heardFrom' = {}
    /\ malformedSeen' = FALSE
    /\ UNCHANGED <<received, callers>>
    /\ UNCHANGED registryVars

\* lines 110-114: KeyboardInterrupt reaches the main thread inside
\* discover_devices; the handler prints and calls sys.exit(0), which ends the
\* process and with it the daemon listener thread, wherever it is, and every
\* local.  Nothing closes the listener's socket.
Interrupt ==
    /\ mpc \in {"started", "send", "close", "join", "summary"}
    /\ mpc' = "cancelled"
    /\ lpc' = IF ListenerAlive THEN "killed" ELSE lpc
    /\ recv_start' = 0
    /\ data' = NoData
    /\ addr' = None
    /\ device_info' = NoValue
    /\ UNCHANGED <<session, timeout, psock, sendStatus, reported, sendAttempts,
                   threadStarts, joins, lsock, start_time, windows, now, callers>>
    /\ UNCHANGED registryVars
    /\ UNCHANGED inputVars

\* ------------------------------------------------------------------------
\* Listener thread: listen_for_responses
\* ------------------------------------------------------------------------

\* lines 43-50 succeed: socket created and bound, start_time taken
ListenerBind ==
    /\ lpc = "setup"
    /\ lpc' = "loop"
    /\ lsock' = "bound"
    /\ start_time' = now
    /\ windows' = windows + 1
    /\ UNCHANGED <<recv_start, data, addr, device_info, now, callers>>
    /\ UNCHANGED mainVars
    /\ UNCHANGED registryVars
    /\ UNCHANGED inputVars

\* lines 43-46 raise (socket cannot be created, or bind fails): the
\* exception ends the thread; nothing reports it to discover_devices
ListenerSetupFails ==
    /\ lpc = "setup"
    /\ lpc' = "crashed"
    /\ lsock' \in {"none", "unbound"}
    /\ UNCHANGED <<start_time, recv_start, data, addr, device_info, windows, now, callers>>
    /\ UNCHANGED mainVars
    /\ UNCHANGED registryVars
    /\ UNCHANGED inputVars

\* line 52 true, line 54 entered: recvfrom blocks for at most timeout seconds
\* (settimeout, line 45)
EnterReceive ==
    /\ lpc = "loop"
    /\ now - start_time < timeout
    /\ lpc' = "recv"
    /\ recv_start' = now
    /\ UNCHANGED <<lsock, start_time, data, addr, device_info, windows, now,
                   callers>>
    /\ UNCHANGED mainVars
    /\ UNCHANGED registryVars
    /\ UNCHANGED inputVars

\* line 52 false, line 69: the loop ends, the socket is closed, the thread ends
ListenerFinish ==
    /\ lpc = "loop"
    /\ ~(now - start_time < timeout)
    /\ lpc' = "exited"
    /\ lsock' = "closed"
    /\ UNCHANGED <<start_time, recv_start, data, addr, device_info, windows, now, callers>>
    /\ UNCHANGED mainVars
    /\ UNCHANGED registryVars
    /\ UNCHANGED inputVars

\* line 54 returns a datagram before the socket timeout has run out
ReceiveDatagram ==
    /\ lpc = "recv"
    /\ now - recv_start < timeout
    /\ received < MaxDatagrams
    /\ \E a \in Addrs, d \in Payloads :
         /\ data' = d
         /\ addr' = a
         /\ heardFrom' = heardFrom \cup {a}
         /\ malformedSeen' = (malformedSeen \/ ~WellFormed(d))
    /\ received' = received + 1
    /\ recv_start' = 0
    /\ lpc' = "process"
    /\ UNCHANGED <<lsock, start_time, device_info, windows, now, callers>>
    /\ UNCHANGED mainVars
    /\ UNCHANGED registryVars

\* would lines 55-60 append an entry for payload d from source a?
Admitted(a, d) ==
    /\ d.kind # "empty"
    /\ DecodeResponse(d).ok
    /\ Appends(discovered_devices, a)

\* line 54 again, for a stream of datagrams without end: once MaxDatagrams
\* have been delivered, any number of further ones arrive that add no entry
\* to the list (malformed, or turned down by line 59)
ReceiveFurther ==
    /\ lpc = "recv"
    /\ now - recv_start < timeout
    /\ received = MaxDatagrams
    /\ \E a \in Addrs, d \in Payloads :
         /\ ~Admitted(a, d)
         /\ data' = d
         /\ addr' = a
         /\ heardFrom' = heardFrom \cup {a}
         /\ malformedSeen' = (malformedSeen \/ ~WellFormed(d))
    /\ recv_start' = 0
    /\ lpc' = "process"
    /\ UNCHANGED <<lsock, start_time, device_info, windows, now, received, callers>>
    /\ UNCHANGED mainVars
    /\ UNCHANGED registryVars

\* ReceiveTimesOut as it would be without settimeout (line 45): recvfrom
\* never gives up
ReceiveTimesOut_Never ==
    /\ FALSE
    /\ UNCHANGED vars

\* line 54 raises socket.timeout, lines 66-67: back to the loop test
ReceiveTimesOut ==
    /\ lpc = "recv"
    /\ ~(now - recv_start < timeout)
    /\ recv_start' = 0
    /\ lpc' = "loop"
    /\ UNCHANGED <<lsock, start_time, data, addr, device_info, windows,
                   now, callers>>
    /\ UNCHANGED mainVars
    /\ UNCHANGED registryVars
    /\ UNCHANGED inputVars

\* line 54 raises an OSError that is no timeout: only socket.timeout is
\* caught (line 66), so the exception ends the thread before line 69
ReceiveFails ==
    /\ lpc = "recv"
    /\ recv_start' = 0
    /\ lpc' = "crashed"
    /\ UNCHANGED <<lsock, start_time, data, addr, device_info, windows,
                   now, callers>>
    /\ UNCHANGED mainVars
    /\ UNCHANGED registryVars
    /\ UNCHANGED inputVars

\* lines 55-57 do not reach the lock: data is empty (line 55), or decoding
\* raises and lines 62-65 print a diagnostic.  The locals are dead afterwards.
ProcessRejected ==
    /\ lpc = "process"
    /\ data.kind = "empty" \/ ~DecodeResponse(data).ok
    /\ lpc' = "loop"
    /\ data' = NoData
    /\ addr' = None
    /\ UNCHANGED <<lsock, start_time, recv_start, device_info, windows, now,
                   callers>>
    /\ UNCHANGED mainVars
    /\ UNCHANGED registryVars
    /\ UNCHANGED inputVars

\* lines 55-58: data decodes, device_info is bound, the lock is acquired
ProcessDecoded ==
    /\ lpc = "process"
    /\ data.kind # "empty"
    /\ DecodeResponse(data).ok
    /\ discovery_lock = None
    /\ device_info' = DecodeResponse(data).value
    /\ discovery_lock' = "listener"
    /\ lpc' = "locked"
    /\ UNCHANGED <<lsock, start_time, recv_start, data, addr, windows, now,
                   callers, discovered_devices, origins>>
    /\ UNCHANGED mainVars
    /\ UNCHANGED inputVars

\* lines 59-61 under the lock, then its release; an AttributeError from line
\* 59 or from print_device_info (line 61, after the append) is caught by
\* lines 64-65
InsertDevice ==
    /\ lpc = "locked"
    /\ discovered_devices' = InsertResponse(discovered_devices, addr, device_info)
    /\ origins' = IF Appends(discovered_devices, addr) THEN Append(origins, addr)
                  ELSE origins
    /\ discovery_lock' = None
    /\ lpc' = "loop"
    /\ data' = NoData
    /\ addr' = None
    /\ device_info' = NoValue
    /\ UNCHANGED <<lsock, start_time, recv_start, windows, now, callers>>
    /\ UNCHANGED mainVars
    /\ UNCHANGED inputVars

\* time passes; the listener reads the clock at line 52 and inside recvfrom,
\* so time is advanced where one of the two can observe it
Tick ==
    /\ \/ lpc = "loop" /\ now - start_time < timeout
       \/ lpc = "recv" /\ now - recv_start < timeout
    /\ now' = now + 1
    /\ UNCHANGED <<callers>>
    /\ UNCHANGED mainVars
    /\ UNCHANGED listenerVars
    /\ UNCHANGED registryVars
    /\ UNCHANGED inputVars

Next ==
    \/ StartListener
    \/ ProberSetup
    \/ ProberSetupFails
    \/ SendBroadcast
    \/ SendBroadcastFails
    \/ ProberClose
    \/ JoinListener
    \/ PrintSummary
    \/ NewSession
    \/ Interrupt
    \/ ListenerBind
    \/ ListenerSetupFails
    \/ EnterReceive
    \/ ListenerFinish
    \/ ReceiveDatagram
    \/ ReceiveTimesOut
    \/ ReceiveFails
    \/ ProcessRejected
    \/ ProcessDecoded
    \/ InsertDevice
    \/ Tick

Spec == Init /\ [][Next]_vars

\* The steps each thread takes by itself once it is scheduled.  The arrival
\* of a datagram, a receive error and the interrupt are events of the
\* environment and are not among them.
MainStep ==
    \/ StartListener
    \/ ProberSetup
    \/ ProberSetupFails
    \/ SendBroadcast
    \/ SendBroadcastFails
    \/ ProberClose
    \/ JoinListener
    \/ PrintSummary

ListenerStep ==
    \/ ListenerBind
    \/ ListenerSetupFails
    \/ EnterReceive
    \/ ListenerFinish
    \/ ReceiveTimesOut
    \/ ProcessRejected
    \/ ProcessDecoded
    \/ InsertDevice

\* the program under a stream of datagrams without end
NextStream == Next \/ ReceiveFurther

\* Both threads are scheduled, and time advances: the clock moves again and
\* again while the listener keeps coming back to where it reads it
FairSpec ==
    /\ Init
    /\ [][NextStream]_vars
    /\ WF_vars(MainStep)
    /\ WF_vars(ListenerStep)
    /\ SF_vars(Tick)

\* ------------------------------------------------------------------------
\* Several threads running lines 57-61 at once, each on its own datagram
\* ------------------------------------------------------------------------
Callers == 1..NumCallers

InitConc ==
    /\ InitProgram
    /\ callers \in [Callers -> [pc : {"process"}, addr : Addrs, data : Payloads,
                                info : {NoValue}]]

concFrame == <<session, timeout, mpc, psock, sendStatus, reported, sendAttempts,
               threadStarts, joins, lpc, lsock, start_time, recv_start, data, addr,
               device_info, windows, now, received, heardFrom, malformedSeen>>

\* lines 55-57, 62-65 in caller c: nothing reaches the lock
CallerRejected(c) ==
    /\ callers[c].pc = "process"
    /\ callers[c].data.kind = "empty" \/ ~DecodeResponse(callers[c].data).ok
    /\ callers' = [callers EXCEPT ![c].pc = "done"]
    /\ UNCHANGED concFrame
    /\ UNCHANGED registryVars

\* lines 55-58 in caller c: decoded, lock acquired
CallerDecoded(c) ==
    /\ callers[c].pc = "process"
    /\ callers[c].data.kind # "empty"
    /\ DecodeResponse(callers[c].data).ok
    /\ discovery_lock = None
    /\ discovery_lock' = ToString(c)
    /\ callers' = [callers EXCEPT ![c].pc = "locked",
                                  ![c].info = DecodeResponse(callers[c].data).value]
    /\ UNCHANGED concFrame
    /\ UNCHANGED <<discovered_devices, origins>>

\* lines 59-61 in caller c, then the release of the lock
CallerInsert(c) ==
    /\ callers[c].pc = "locked"
    /\ discovered_devices' =
           InsertResponse(discovered_devices, callers[c].addr, callers[c].info)
    /\ origins' = IF Appends(discovered_devices, callers[c].addr)
                  THEN Append(origins, callers[c].addr) ELSE origins
    /\ discovery_lock' = None
    /\ callers' = [callers EXCEPT ![c].pc = "done"]
    /\ UNCHANGED concFrame

NextConc ==
    \E c \in Callers :
        \/ CallerRejected(c)
        \/ CallerDecoded(c)
        \/ CallerInsert(c)

SpecConc == InitConc /\ [][NextConc]_vars

\* ------------------------------------------------------------------------
\* Properties
\* ------------------------------------------------------------------------
Range(seq) == {seq[i] : i \in 1..Len(seq)}

\* the step that runs the locked section of the listener (InsertDevice)
InsertStep == lpc = "locked" /\ lpc' = "loop"
Appended == discovered_devices' = Append(discovered_devices, device_info)

\* some stored entry reports a as its 'ip'
Claimed(a) ==
    \E i \in 1..Len(discovered_devices) : Get(discovered_devices[i], "ip") = a

\* C1: in the first session, once the listener has finished, if every
\* datagram it received was a well-formed response then the list holds
\* exactly one entry per distinct source address heard from.
C1_OneRecordPerSource ==
    (session = 1 /\ lpc = "exited" /\ ~malformedSeen)
        => Len(discovered_devices) = Cardinality(heardFrom)

\* C2: in the first session, while only well-formed responses have been
\* received, no two entries of the list come from the same packet source
\* address.
C2_NoTwoRecordsFromOneSource ==
    (session = 1 /\ ~malformedSeen) =>
        \A i, j \in 1..Len(origins) : origins[i] = origins[j] => i = j

\* C3: the dedup key is the packet source address, never the claimed 'ip': a
\* response from a source that has no entry yet is stored even when a stored
\* entry, from another source, claims that address as its 'ip'.
C3_KeyIsPacketSource ==
    [][(/\ InsertStep
        /\ WellFormed(data)
        /\ ~IpListRaises(discovered_devices)
        /\ addr \notin Range(origins)
        /\ Claimed(addr)) => Appended]_vars

\* C4: a datagram the decoder must reject (not UTF-8, not JSON, not an object,
\* or an object without fields) leaves the list unchanged.
C4_RejectedLeavesRegistryUnchanged ==
    [][(lpc \in {"process", "locked"} /\ ~WellFormed(data))
           => discovered_devices' = discovered_devices]_vars

\* C5: after malformed datagrams, a later well-formed response from a source
\* address that has no entry yet (and that no stored entry claims) is still
\* inserted.
C5_InsertedAfterMalformed ==
    [][(/\ InsertStep
        /\ malformedSeen
        /\ WellFormed(data)
        /\ addr \notin Range(origins)
        /\ ~Claimed(addr)) => Appended]_vars

\* C6: when several concurrent callers have each run the locked section for
\* a well-formed response from one and the same source address, the list
\* holds exactly one entry from that address.
C6_ExactlyOneConcurrentInsert ==
    \A a \in Addrs :
        (\A c \in DOMAIN callers :
            /\ callers[c].pc = "done"
            /\ callers[c].addr = a
            /\ WellFormed(callers[c].data))
        => (callers = NoCallers
            \/ Cardinality({i \in 1..Len(origins) : origins[i] = a}) = 1)

\* C7: the probe is sent only after the listener has bound its socket.
C7_BoundBeforeProbe ==
    sendStatus # "none" => lsock \in {"bound", "closed"}

\* C10: a session whose listener could not set up its socket never completes
\* as a normal result.
C10_SetupFailureIsFatal ==
    ~(mpc = "done" /\ lpc = "crashed" /\ lsock \in {"none", "unbound"})

\* the session state a position of the main thread belongs to:
\* Idle 0, Listening 1, Probing 2, Collecting 3, Done 4
Rank(pc) ==
    CASE pc = "idle"    -> 0
      [] pc = "started" -> 1
      [] pc = "send"    -> 2
      [] pc = "close"   -> 3
      [] pc = "join"    -> 3
      [] pc = "summary" -> 4
      [] pc = "done"    -> 4
      [] OTHER          -> 5

\* C8: within one session the main thread only moves forward through
\* Idle, Listening, Probing, Collecting, Done, one state at a time; it never
\* makes a second send attempt, starts a second listener or joins twice, the
\* listener never begins a second receive loop, a failed send is followed by
\* the join and not by another send, and a session that is done has made
\* exactly one send attempt, one thread start and one join (and one receive
\* loop when the listener closed its socket).
C8_OneProbeOneWindow ==
    /\ [](/\ sendAttempts <= 1
          /\ threadStarts <= 1
          /\ joins <= 1
          /\ windows <= 1
          /\ (sendStatus = "failed" => mpc \in {"close", "join", "summary", "done",
                                                "cancelled"})
          /\ (mpc = "done" => sendAttempts = 1 /\ threadStarts = 1 /\ joins = 1)
          /\ (mpc = "done" /\ lsock = "closed" => windows = 1))
    /\ [][(session' = session /\ mpc' \notin {"raised", "cancelled"})
             => Rank(mpc') \in {Rank(mpc), Rank(mpc) + 1}]_vars

\* a session whose send failed has run its window, received responses and
\* is done
C8_Witness ==
    /\ mpc = "done"
    /\ sendStatus = "failed"
    /\ sendAttempts = 1
    /\ windows = 1
    /\ lpc = "exited"
    /\ heardFrom # {}

\* C9: once the send has failed the session is not aborted (the main thread
\* goes on to close the prober's socket and to join), the failing step leaves
\* the listener and the list untouched, the summary is reached only after
\* the listener has ended, a listener that leaves its loop does so at or
\* after the deadline and closes its socket, responses that the list's rule
\* admits are still appended, and the summary counts them.
C9_SendFailureNonFatal ==
    /\ [](sendStatus = "failed" =>
            /\ mpc \in {"close", "join", "summary", "done", "cancelled"}
            /\ (mpc \in {"summary", "done"} => ListenerTerminated)
            /\ (lpc = "exited" => now - start_time >= timeout /\ lsock = "closed")
            /\ (mpc = "done" => reported = Len(discovered_devices)))
    /\ [][(mpc = "send" /\ sendStatus' = "failed")
             => UNCHANGED <<listenerVars, registryVars, inputVars, now>>]_vars
    /\ [][(sendStatus = "failed" /\ InsertStep /\ Appends(discovered_devices, addr))
             => Appended]_vars

\* the send failed, the window ran to the deadline, a response was appended
\* in this session and the session is done
C9_Witness ==
    /\ session = 1
    /\ sendStatus = "failed"
    /\ mpc = "done"
    /\ lpc = "exited"
    /\ now - start_time >= timeout
    /\ timeout > 0
    /\ Len(discovered_devices) > 0
    /\ reported = Len(discovered_devices)

\* C11: once the session has been cancelled, a listener that had bound its
\* socket has left its loop and closed the socket, and the session has
\* yielded the entries inserted so far.
C11_CancelReleasesAndYields ==
    (mpc = "cancelled" /\ windows = 1)
        => /\ lpc = "exited"
           /\ lsock = "closed"
           /\ reported = Len(discovered_devices)

\* C12: at the start of every call of discover_devices the list is empty.
C12_RegistryEmptyAtSessionStart ==
    mpc = "idle" => discovered_devices = <<>>

\* C13: a session run with timeout 0 whose listener bound its socket receives
\* nothing, and when it is done its result is empty.
C13_ZeroWindowEmptyResult ==
    (timeout = 0 /\ windows = 1)
        => /\ heardFrom = {}
           /\ lpc \notin {"recv", "process", "locked"}
           /\ (mpc = "done" => discovered_devices = <<>> /\ reported = 0)

\* C15: recvfrom hands no datagram to the listener once the time since
\* start_time has reached the timeout.
C15_NothingAcceptedAfterDeadline ==
    [][(lpc = "recv" /\ lpc' = "process") => now - start_time < timeout]_vars

\* C16: whenever the listener thread has ended, however it ended, a socket
\* it created is closed.
C16_SocketReleasedOnEveryExit ==
    lpc \in {"exited", "crashed", "killed"} => lsock \in {"none", "closed"}

\* the key/value pairs of a stored dict
StoredPairs(d) == {<<k, d.items[k]>> : k \in DOMAIN d.items}

\* the step that appends an entry for a well-formed response
AcceptStep ==
    /\ InsertStep
    /\ WellFormed(data)
    /\ Len(discovered_devices') = Len(discovered_devices) + 1

\* the value written last for key k in an object text
LastValue(pairs, k) ==
    LET i == CHOOSE n \in 1..Len(pairs) :
                 /\ pairs[n][1] = k
                 /\ \A j \in (n + 1)..Len(pairs) : pairs[j][1] # k
    IN  pairs[i][2]

\* C14 as stated: the entry stored for an accepted well-formed response
\* holds exactly the key/value pairs written in the payload.
C14_StoredPairsArePayloadPairs ==
    [][AcceptStep =>
          StoredPairs(discovered_devices'[Len(discovered_devices')])
              = Range(data.pairs)]_vars

\* C14 amended: the entry stored for an accepted well-formed response has
\* exactly the keys written in the payload, known to the program or not, each
\* with the value written last for it; when no key is written twice these
\* are exactly the payload's key/value pairs.
C14_StoredPairsLastWins ==
    [][AcceptStep =>
          LET stored == discovered_devices'[Len(discovered_devices')]
              keys == {data.pairs[i][1] : i \in 1..Len(data.pairs)}
          IN  /\ HasGet(stored)
              /\ DOMAIN stored.items = keys
              /\ \A k \in keys : stored.items[k] = LastValue(data.pairs, k)
              /\ (Cardinality(keys) = Len(data.pairs)
                     => StoredPairs(stored) = Range(data.pairs))]_vars

\* an entry with an 'ip' and a key the program does not know is stored
C14_Witness ==
    \E i \in 1..Len(discovered_devices) :
        /\ HasGet(discovered_devices[i])
        /\ DOMAIN discovered_devices[i].items = {"ip", "serial"}

\* C18: every step leaves the list as it is or appends one entry at its end;
\* the entries already there keep their place and their value, and the same
\* holds for the order of the source addresses they were accepted from.
C18_AppendOnly ==
    /\ [](Len(origins) = Len(discovered_devices))
    /\ [][/\ Len(discovered_devices') \in {Len(discovered_devices),
                                           Len(discovered_devices) + 1}
          /\ SubSeq(discovered_devices', 1, Len(discovered_devices))
                 = discovered_devices
          /\ SubSeq(origins', 1, Len(origins)) = origins]_vars

\* two different entries from two sources are in the list
C18_Witness ==
    /\ Len(discovered_devices) = 2
    /\ discovered_devices[1] # discovered_devices[2]
    /\ origins[1] # origins[2]

\* C19: the summary is reached only after the listener thread has ended, no
\* entry is inserted from then on in the session, and the count the summary
\* prints is the number of entries in the list.
C19_SummaryAfterListener ==
    /\ [](mpc \in {"summary", "done"} => ListenerTerminated)
    /\ [](mpc = "done" => reported = Len(discovered_devices))
    /\ [][(mpc \in {"summary", "done"} /\ session' = session)
             => discovered_devices' = discovered_devices]_vars

\* a session is done whose listener ran its window and whose summary
\* counted the entries
C19_Witness ==
    /\ mpc = "done"
    /\ lpc = "exited"
    /\ timeout > 0
    /\ reported > 0
    /\ reported = Len(discovered_devices)

\* C17: every session that has started its listener terminates: the
\* listener thread ends and discover_devices returns (done), unless the
\* prober's socket setup raised or the user interrupted, which end the
\* process and the listener with it.
C17_SessionTerminates ==
    (mpc = "started") ~> (mpc \in {"done", "raised", "cancelled"} /\ ~ListenerAlive)

\* a session is done after a failed send and a window in which more
\* datagrams arrived than MaxDatagrams, malformed ones among them
C17_Witness ==
    /\ mpc = "done"
    /\ lpc = "exited"
    /\ sendStatus = "failed"
    /\ timeout > 0
    /\ received = MaxDatagrams
    /\ malformedSeen
    /\ Len(discovered_devices) < MaxDatagrams

====
